---- MODULE Spec2Model ----
(***************************************************************************)
(* Toss/catch motion validation of the juggling trainer: the CatchChecker, *)
(* TossProgress and TossChecker components (window tracking, hit judging,  *)
(* error counting) and the level progression of the practice tutorials.    *)
(* Next to them: FollowTrajectory (balls held in each hand), HandState     *)
(* (hand gestures), SimpleSlider (virtual bounds of the clock) and the     *)
(* toss introduction.                                                      *)
(* The alert source (Alerts), the Clock and the XR devices are external:   *)
(* they appear as the notifications, clock calls and per-frame inputs the  *)
(* handlers receive.                                                       *)
(***************************************************************************)
EXTENDS Integers, Sequences, FiniteSets, TLC

(***************************************************************************)
(* Bounds of the model.                                                    *)
(***************************************************************************)
NumBalls == 2        \* balls of the pattern
MaxNotified == 2     \* windows / instants the alert sources open in one run
MaxFar == 1          \* hand positions beyond the last ball
MaxErrors == 2       \* errors counted in one repetition of a practice
MaxRepetitions == 2  \* repetition boundaries remembered for the properties
MaxFollow == 2       \* balls FollowTrajectory keeps in one hand list
SliderSteps == 3     \* positions of the slider track, counted from its left end: 0..SliderSteps

(***************************************************************************)
(* Geometry: positions on a line; ball b sits at 2b-2, so that a hand can  *)
(* be at a ball's centre, on its surface, on the surface of two balls at   *)
(* once, or away from every ball.                                          *)
(***************************************************************************)
radius == 1
Null == -1
Balls == 1..NumBalls
MaxPos == 2 * NumBalls - 1 + MaxFar
Positions == 0..MaxPos
ballWorldPos(b) == 2 * b - 2
distanceTo(p, q) == IF p >= q THEN p - q ELSE q - p

Hands == {"right", "left"}
Actions == {"caught", "tossed"}

(***************************************************************************)
(* An AlertEvent is identified by reference; within one pattern it is      *)
(* determined by its hand, its action and its ball.                        *)
(***************************************************************************)
Shapes == [hand : Hands, action : Actions, ball : Balls]
NoEvent == [hand |-> "none", action |-> "none", ball |-> 0]
isRightHand(e) == e.hand = "right"
siteswapHeight(e) == IF e.ball = 1 THEN 3 ELSE 1
UnitTimes == {0, 1}     \* beat durations: of a malformed pattern, of a well-formed one
MissingLevels == {{}, {1}, {2}}   \* level tables: complete, without level 1, without level 2

VARIABLES
    listenedEvent,          \* CatchChecker: events currently monitored
    hasCatchRight,          \* CatchChecker: right-hand outcome flag
    hasCatchLeft,           \* CatchChecker: left-hand outcome flag
    makeStop,               \* CatchChecker prop: stop at each event
    catchListeners,         \* CatchChecker: listeners its alerts effect registered
    ballsRef,               \* ball objects registered in the scene
    tossListenedEvent,      \* TossProgress: events currently monitored
    Aclick,                 \* TossProgress: right-hand outcome flag
    Xclick,                 \* TossProgress: left-hand outcome flag
    incomingSiteswapRight,  \* TossChecker: expected right toss (0: undefined)
    incomingSiteswapLeft,   \* TossChecker: expected left toss (0: undefined)
    tossPause,              \* TossChecker prop makeStop
    tossEvent,              \* the toss event each TossChecker guide was set for
    velocity,               \* TossChecker: guide direction of each hand
    unitTime,               \* duration of one beat of the pattern
    errorCount,             \* shared error counter of the session
    text,                   \* status text of the session
    paused,                 \* Clock: paused
    playbackRate,           \* Clock: playback rate, in tenths
    time,                   \* Clock: "start" or "running" (past the pattern start)
    alert,                  \* alert source of CatchChecker
    progressAlert,          \* alert source of TossProgress
    tossAlert,              \* alert source of TossChecker
    notified,               \* number of windows / instants opened so far
    tutorial,               \* the practice tutorial that owns the progression
    level,                  \* practice: current level
    pc,                     \* practice: position of the pending nextLevel call
    infos,                  \* practice: level whose entry nextLevel read at its start
    nextInfo,               \* practice: level whose entry nextLevel read after advancing
    scene,                  \* practice: scene shown
    boundary,               \* level and error count at the last reachedEnd
    outcome,                \* how the last nextLevel call ended
    bpc,                    \* practice: position of the countdown the B button started
    mounted,                \* practice: the owning component is mounted
    repetitions,            \* level and error count at the first reachedEnd events
    countdowns,             \* countdowns started by the pending nextLevel call
    missing,                \* levels that have no entry in the level table
    ballToFollowLeft,       \* FollowTrajectory: balls followed in the left hand
    ballToFollowRight,      \* FollowTrajectory: balls followed in the right hand
    resetSignal,            \* TwoBallsPerformance: state sent to FollowTrajectory as reset
    followReset,            \* FollowTrajectory is the version emptied through its reset prop
    wasPinching,            \* HandState: pinch seen at the last processed update, per side
    wasPinchingMiddle,      \* HandState: middle pinch seen at the last processed update
    wasOpenHand,            \* HandState: open hand seen at the last processed update
    wasCloseHand,           \* HandState: closed hand seen at the last processed update
    detected,               \* gestures the measurements of the last update call show
    dispatched,             \* gesture events dispatched by the last update call
    handCall,               \* the last direct call of isCloseHand and its result
    infPositionRef,         \* SimpleSlider: position of the inf marker
    supPositionRef,         \* SimpleSlider: position of the sup marker
    infTime,                \* SimpleSlider: virtual lower bound of the clock
    supTime,                \* SimpleSlider: virtual upper bound of the clock
    infDep,                 \* SimpleSlider: inf position seen by the last render
    supDep,                 \* SimpleSlider: sup position seen by the last render
    dragging,               \* SimpleSlider: what the pointer drags
    clockTime,              \* the slider's clock: time
    loop,                   \* the slider's clock: loop mode
    currentProgression,     \* TossIntroduction: index of the text shown
    clickAge,               \* TossIntroduction: frames since the last accepted action
    accepted,               \* TossIntroduction: the action the last frame accepted
    introText,              \* TossIntroduction: text shown
    introPaused,            \* TossIntroduction: its clock is paused
    introScene,             \* the step of the tutorial the parent shows
    out,                    \* calls made to the feedback sinks and the clock by the last step
    last,                   \* the last step and its inputs
    matched                 \* event instances matched so far

catchVars == <<listenedEvent, hasCatchRight, hasCatchLeft, makeStop, catchListeners, ballsRef>>
progressVars == <<tossListenedEvent, Aclick, Xclick>>
tossVars == <<incomingSiteswapRight, incomingSiteswapLeft, tossPause, tossEvent, velocity, unitTime>>
clockVars == <<paused, playbackRate, time>>
alertVars == <<alert, progressAlert, tossAlert, notified>>
sessionVars == <<errorCount, text>>
practiceVars == <<tutorial, level, pc, infos, nextInfo, scene, boundary, outcome,
                  bpc, mounted, repetitions, countdowns, missing>>
followVars == <<ballToFollowLeft, ballToFollowRight, resetSignal, followReset>>
handVars == <<wasPinching, wasPinchingMiddle, wasOpenHand, wasCloseHand, detected,
              dispatched, handCall>>
sliderVars == <<infPositionRef, supPositionRef, infTime, supTime, infDep, supDep, dragging,
                clockTime, loop>>
introVars == <<currentProgression, clickAge, accepted, introText, introPaused, introScene>>
widgetVars == <<followVars, handVars, sliderVars, introVars>>
obsVars == <<out, last, matched>>
vars == <<catchVars, progressVars, tossVars, clockVars, alertVars, sessionVars,
          practiceVars, widgetVars, obsVars>>

(***************************************************************************)
(* Records of the calls a step makes.                                      *)
(***************************************************************************)
Call(t, e, s, i, d, m) ==
    [type |-> t, ev |-> e, side |-> s, intensity |-> i, duration |-> d, msg |-> m]
Explode(e) == Call("explode", e, e.hand, 0, 0, "")
Pulse(e, s, i, d) == Call("pulse", e, s, i, d, "")
Warn(e, s) == Call("warn", e, s, 0, 0, "")
Play(e) == Call("play", e, e.hand, 0, 0, "")
Pause(e) == Call("pause", e, e.hand, 0, 0, "")
Miss(e, m) == Call("miss", e, e.hand, 0, 0, m)
Spurious(s, m) == Call("spurious", NoEvent, s, 0, 0, m)
Step(a, e) == [act |-> a, ev |-> e, near |-> {}, pressed |-> {}, sources |-> {}]
FrameStep(a, n, p) == [act |-> a, ev |-> NoEvent, near |-> n, pressed |-> p, sources |-> {}]
FrameStepFrom(a, n, s) == [act |-> a, ev |-> NoEvent, near |-> n, pressed |-> {}, sources |-> s]

MissedCatchRight == "Vous n'avez pas rattrape la balle a droite"
MissedCatchLeft == "Vous n'avez pas rattrape la balle a gauche"
MissedTossRight == "Vous n'avez pas lance la balle a droite"
MissedTossLeft == "Vous n'avez pas lance la balle a gauche"
BadTiming == "Mauvais timing"
PressBToStart == "Appuyez sur B pour commencer"

(***************************************************************************)
(* Array helpers.                                                          *)
(***************************************************************************)
indexOf(list, e) ==
    IF \E i \in 1..Len(list) : list[i] = e
    THEN CHOOSE i \in 1..Len(list) : list[i] = e /\ \A j \in 1..(i - 1) : list[j] # e
    ELSE 0
splice(list, i) ==
    IF i \in 1..Len(list)
    THEN SubSeq(list, 1, i - 1) \o SubSeq(list, i + 1, Len(list))
    ELSE list
SetMax(S) == CHOOSE m \in S : \A x \in S : x <= m
RECURSIVE spliceDescending(_, _)
spliceDescending(list, S) ==
    IF S = {} THEN list
    ELSE spliceDescending(splice(list, SetMax(S)), S \ {SetMax(S)})
InList(list, e) == \E i \in 1..Len(list) : list[i] = e

(***************************************************************************)
(* The alert sources fire their notifications while the clock runs.        *)
(***************************************************************************)
CanNotify == ~paused /\ notified < MaxNotified

(***************************************************************************)
(* CatchChecker.getWorldPosition: the controller wins over the tracked     *)
(* hand; a hand without a joint pose, a missing source or a missing XR     *)
(* frame give null.                                                        *)
(***************************************************************************)
getWorldPositionStale(frame, kind, p) ==
    IF ~frame THEN Null
    ELSE IF kind \in {"controller", "hand"} THEN p
    ELSE radius

getWorldPosition(frame, kind, p) ==
    IF ~frame THEN Null
    ELSE IF kind = "controller" THEN p
    ELSE IF kind = "hand" THEN p
    ELSE Null

(***************************************************************************)
(* vibrateController: pulses only through a controller.                    *)
(***************************************************************************)
vibrateController(e, side, kind, intensity, duration) ==
    IF kind # "controller" THEN Warn(e, side) ELSE Pulse(e, side, intensity, duration)

(***************************************************************************)
(* The collision test of CatchChecker's frame loop: the distance is        *)
(* tested for truthiness before it is compared with the radius.            *)
(***************************************************************************)
catchCollidesWide(pos, b) ==
    LET distance == IF pos = Null THEN Null ELSE distanceTo(pos, ballWorldPos(b))
    IN distance # Null /\ distance # 0 /\ distance <= 2 * radius

catchCollides(pos, b) ==
    LET distance == IF pos = Null THEN Null ELSE distanceTo(pos, ballWorldPos(b))
    IN distance # Null /\ distance # 0 /\ distance <= radius

(***************************************************************************)
(* The loop of CatchChecker's useFrame over listenedEvent.  acc carries    *)
(* eventToRemove, the two flags, the clock's paused state and the calls.   *)
(***************************************************************************)
RECURSIVE catchLoop(_, _, _, _, _, _)
catchLoop(i, rightPos, leftPos, rightKind, leftKind, acc) ==
    IF i > Len(listenedEvent) THEN acc
    ELSE
        LET event == listenedEvent[i]
            right == isRightHand(event)
            pos == IF right THEN rightPos ELSE leftPos
            kind == IF right THEN rightKind ELSE leftKind
            hit == /\ event.action = "caught"
                   /\ event.ball \in ballsRef
                   /\ catchCollides(pos, event.ball)
            calls == <<Explode(event), vibrateController(event, event.hand, kind, 1, 50)>>
                        \o (IF makeStop THEN <<Play(event)>> ELSE <<>>)
        IN  IF hit
            THEN catchLoop(i + 1, rightPos, leftPos, rightKind, leftKind,
                    [eventToRemove |-> acc.eventToRemove \cup {i},
                     hasCatchRight |-> IF right THEN TRUE ELSE acc.hasCatchRight,
                     hasCatchLeft |-> IF right THEN acc.hasCatchLeft ELSE TRUE,
                     paused |-> IF makeStop THEN FALSE ELSE acc.paused,
                     out |-> acc.out \o calls,
                     matched |-> acc.matched \cup {event}])
            ELSE catchLoop(i + 1, rightPos, leftPos, rightKind, leftKind, acc)

(***************************************************************************)
(* Observation: the monitored catch events whose own hand is, in this      *)
(* frame, no further from the event's ball than the ball's radius.         *)
(***************************************************************************)
handAtBall(list, rightPos, leftPos) ==
    {list[i] : i \in {j \in 1..Len(list) :
        LET pos == IF isRightHand(list[j]) THEN rightPos ELSE leftPos IN
        /\ list[j].action = "caught"
        /\ list[j].ball \in ballsRef
        /\ pos # Null
        /\ distanceTo(pos, ballWorldPos(list[j].ball)) <= radius}}

(***************************************************************************)
(* CatchChecker: useFrame.                                                 *)
(***************************************************************************)
CatchFrame(frame, rightKind, rp, leftKind, lp) ==
    LET rightPos == getWorldPosition(frame, rightKind, rp)
        leftPos == getWorldPosition(frame, leftKind, lp)
    IN  \E res \in {catchLoop(1, rightPos, leftPos, rightKind, leftKind,
                       [eventToRemove |-> {}, hasCatchRight |-> hasCatchRight,
                        hasCatchLeft |-> hasCatchLeft, paused |-> paused,
                        out |-> <<>>, matched |-> matched])} :
        /\ listenedEvent' = spliceDescending(listenedEvent, res.eventToRemove)
        /\ hasCatchRight' = res.hasCatchRight
        /\ hasCatchLeft' = res.hasCatchLeft
        /\ paused' = res.paused
        /\ out' = res.out
        /\ matched' = res.matched
        /\ last' = FrameStepFrom("CatchFrame", handAtBall(listenedEvent, rightPos, leftPos),
                      {h \in Hands : (IF h = "right" THEN rightKind ELSE leftKind) # "none"})
        /\ UNCHANGED <<makeStop, catchListeners, ballsRef, playbackRate, time>>
        /\ UNCHANGED <<progressVars, tossVars, alertVars, sessionVars, practiceVars>>
        /\ UNCHANGED widgetVars

(***************************************************************************)
(* CatchChecker: "inf" listener (registered when makeStop is false).       *)
(***************************************************************************)
CatchInf(e) ==
    /\ catchListeners = "window"
    /\ CanNotify
    /\ alert[e] = "idle"
    /\ alert' = [alert EXCEPT ![e] = "open"]
    /\ notified' = notified + 1
    /\ IF e.action = "caught"
       THEN /\ listenedEvent' = Append(listenedEvent, e)
            /\ hasCatchRight' = IF isRightHand(e) THEN FALSE ELSE hasCatchRight
            /\ hasCatchLeft' = IF isRightHand(e) THEN hasCatchLeft ELSE FALSE
       ELSE UNCHANGED <<listenedEvent, hasCatchRight, hasCatchLeft>>
    /\ out' = <<>>
    /\ last' = Step("CatchInf", e)
    /\ UNCHANGED <<makeStop, catchListeners, ballsRef, progressAlert, tossAlert, matched>>
    /\ UNCHANGED <<progressVars, tossVars, clockVars, sessionVars, practiceVars>>
    /\ UNCHANGED widgetVars

(***************************************************************************)
(* CatchChecker: "sup" listener (registered when makeStop is false).       *)
(***************************************************************************)
catchSupMissed(e) ==
    /\ e.action = "caught"
    /\ IF isRightHand(e) THEN ~hasCatchRight ELSE ~hasCatchLeft

catchSupKept(list, e) == list

catchSupRemove(list, e) ==
    LET index == indexOf(list, e) IN
    IF index > 0 THEN splice(list, index) ELSE list

CatchSup(e) ==
    LET msg == IF isRightHand(e) THEN MissedCatchRight ELSE MissedCatchLeft IN
    /\ catchListeners = "window"
    /\ ~paused
    /\ alert[e] = "open"
    /\ alert' = [alert EXCEPT ![e] = "closed"]
    /\ IF catchSupMissed(e)
       THEN /\ errorCount' = errorCount + 1
            /\ text' = msg
            /\ out' = <<Miss(e, msg)>>
       ELSE /\ UNCHANGED <<errorCount, text>>
            /\ out' = <<>>
    /\ listenedEvent' = catchSupRemove(listenedEvent, e)
    /\ last' = Step("CatchSup", e)
    /\ UNCHANGED <<hasCatchRight, hasCatchLeft, makeStop, catchListeners, ballsRef>>
    /\ UNCHANGED <<progressAlert, tossAlert, notified, matched>>
    /\ UNCHANGED <<progressVars, tossVars, clockVars, practiceVars>>
    /\ UNCHANGED widgetVars

(***************************************************************************)
(* CatchChecker: "instant" listener (registered when makeStop is true).    *)
(***************************************************************************)
CatchInstant(e) ==
    /\ catchListeners = "instant"
    /\ CanNotify
    /\ alert[e] = "idle"
    /\ alert' = [alert EXCEPT ![e] = "closed"]
    /\ notified' = notified + 1
    /\ IF e.action = "caught"
       THEN /\ listenedEvent' = Append(listenedEvent, e)
            /\ hasCatchRight' = IF isRightHand(e) THEN FALSE ELSE hasCatchRight
            /\ hasCatchLeft' = IF isRightHand(e) THEN hasCatchLeft ELSE FALSE
            /\ paused' = TRUE
            /\ out' = <<Pause(e)>>
       ELSE /\ UNCHANGED <<listenedEvent, hasCatchRight, hasCatchLeft, paused>>
            /\ out' = <<>>
    /\ last' = Step("CatchInstant", e)
    /\ UNCHANGED <<makeStop, catchListeners, ballsRef, playbackRate, time>>
    /\ UNCHANGED <<progressAlert, tossAlert, matched>>
    /\ UNCHANGED <<progressVars, tossVars, sessionVars, practiceVars>>
    /\ UNCHANGED widgetVars

(***************************************************************************)
(* TwoBallsPerformance: setCatchPause changes CatchChecker's makeStop      *)
(* prop.  The alerts effect of CatchChecker depends on the model only, so  *)
(* the listeners stay the ones registered at mount.                        *)
(***************************************************************************)
SetCatchPause ==
    /\ makeStop' = ~makeStop
    /\ out' = <<>>
    /\ last' = Step("SetCatchPause", NoEvent)
    /\ UNCHANGED <<listenedEvent, hasCatchRight, hasCatchLeft, catchListeners, ballsRef>>
    /\ UNCHANGED matched
    /\ UNCHANGED <<progressVars, tossVars, clockVars, alertVars, sessionVars, practiceVars>>
    /\ UNCHANGED widgetVars

(***************************************************************************)
(* TossProgress: "inf" listener.  Reading the colour of a ball that is not *)
(* registered throws before the event is stored.  The indicator meshes are *)
(* rendering sinks and are left out.                                       *)
(***************************************************************************)
TossInf(e) ==
    /\ CanNotify
    /\ progressAlert[e] = "idle"
    /\ progressAlert' = [progressAlert EXCEPT ![e] = "open"]
    /\ notified' = notified + 1
    /\ tossListenedEvent' =
          IF e.ball \in ballsRef THEN Append(tossListenedEvent, e) ELSE tossListenedEvent
    /\ out' = <<>>
    /\ last' = Step("TossInf", e)
    /\ UNCHANGED <<Aclick, Xclick, alert, tossAlert, matched>>
    /\ UNCHANGED <<catchVars, tossVars, clockVars, sessionVars, practiceVars>>
    /\ UNCHANGED widgetVars

(***************************************************************************)
(* TossProgress: "sup" listener.                                           *)
(***************************************************************************)
tossSupMissed(e) ==
    /\ e.action = "tossed"
    /\ IF isRightHand(e) THEN ~Aclick ELSE ~Xclick

tossSupKept(list, e) == list

tossSupRemove(list, e) ==
    LET index == indexOf(list, e) IN
    IF index > 0 THEN splice(list, index) ELSE list

TossSup(e) ==
    LET msg == IF isRightHand(e) THEN MissedTossRight ELSE MissedTossLeft IN
    /\ ~paused
    /\ progressAlert[e] = "open"
    /\ progressAlert' = [progressAlert EXCEPT ![e] = "closed"]
    /\ IF tossSupMissed(e)
       THEN /\ errorCount' = errorCount + 1
            /\ text' = msg
            /\ out' = <<Miss(e, msg)>>
       ELSE /\ UNCHANGED <<errorCount, text>>
            /\ out' = <<>>
    /\ tossListenedEvent' = tossSupRemove(tossListenedEvent, e)
    /\ last' = Step("TossSup", e)
    /\ UNCHANGED <<Aclick, Xclick, alert, tossAlert, notified, matched>>
    /\ UNCHANGED <<catchVars, tossVars, clockVars, practiceVars>>
    /\ UNCHANGED widgetVars

(***************************************************************************)
(* The loop of TossProgress's useFrame over listenedEvent: a toss event is *)
(* matched when the button of its hand is down.  A ball that is not        *)
(* registered makes the whole callback return.                             *)
(***************************************************************************)
RECURSIVE tossLoop(_, _, _, _)
tossLoop(i, rightA, leftX, acc) ==
    IF i > Len(tossListenedEvent) \/ acc.returned THEN acc
    ELSE
        LET event == tossListenedEvent[i]
            right == isRightHand(event)
            hit == /\ event.action = "tossed"
                   /\ IF right THEN rightA ELSE leftX
        IN  IF ~hit THEN tossLoop(i + 1, rightA, leftX, acc)
            ELSE IF event.ball \notin ballsRef
            THEN [acc EXCEPT !.eventToRemove = Append(@, i), !.returned = TRUE]
            ELSE tossLoop(i + 1, rightA, leftX,
                    [eventToRemove |-> Append(acc.eventToRemove, i),
                     Aclick |-> IF right THEN TRUE ELSE acc.Aclick,
                     Xclick |-> IF right THEN acc.Xclick ELSE TRUE,
                     out |-> Append(acc.out, Explode(event)),
                     matched |-> acc.matched \cup {event},
                     returned |-> FALSE])

(***************************************************************************)
(* The removal loop that ends TossProgress's useFrame:                     *)
(*   for (i = eventToRemove.length - 1; i > 0; i--) listenedEvent.splice(i, 1) *)
(* i is a 0-based index, splice works on 1-based positions.                *)
(***************************************************************************)
RECURSIVE tossRemovalLoop(_, _)
tossRemovalLoop(list, i) ==
    IF i > 0 THEN tossRemovalLoop(splice(list, i + 1), i - 1) ELSE list

(***************************************************************************)
(* The press of a button while no toss window of its hand is listed.       *)
(***************************************************************************)
tossedBy(list, h) ==
    {i \in 1..Len(list) : list[i].action = "tossed" /\ list[i].hand = h}

spuriousCallsRightOnly(list, rightA, leftX) ==
    IF rightA /\ tossedBy(list, "right") = {}
    THEN <<vibrateController(NoEvent, "right", "controller", 3, 100),
           Spurious("right", BadTiming)>> ELSE <<>>

spuriousCalls(list, rightA, leftX) ==
    (IF rightA /\ tossedBy(list, "right") = {}
     THEN <<vibrateController(NoEvent, "right", "controller", 3, 100),
            Spurious("right", BadTiming)>> ELSE <<>>)
    \o
    (IF leftX /\ tossedBy(list, "left") = {}
     THEN <<vibrateController(NoEvent, "left", "controller", 3, 100),
            Spurious("left", BadTiming)>> ELSE <<>>)

(***************************************************************************)
(* TossProgress: useFrame.  rightA and leftX are the values of the A and X *)
(* buttons in this frame.                                                  *)
(***************************************************************************)
TossFrame(rightA, leftX) ==
    \E res \in {tossLoop(1, rightA, leftX,
                   [eventToRemove |-> <<>>, Aclick |-> Aclick, Xclick |-> Xclick,
                    out |-> <<>>, matched |-> matched, returned |-> FALSE])} :
    \E spurious \in {IF res.returned THEN <<>>
                     ELSE spuriousCalls(tossListenedEvent, rightA, leftX)} :
        /\ errorCount + Len(spurious) \div 2 <= MaxErrors
        /\ Aclick' = res.Aclick
        /\ Xclick' = res.Xclick
        /\ matched' = res.matched
        /\ out' = res.out \o spurious
        /\ errorCount' = errorCount + Len(spurious) \div 2
        /\ text' = IF spurious # <<>> THEN BadTiming ELSE text
        /\ tossListenedEvent' =
              IF res.returned THEN tossListenedEvent
              ELSE tossRemovalLoop(tossListenedEvent, Len(res.eventToRemove) - 1)
        /\ last' = FrameStep("TossFrame", {},
                      {h \in Hands : IF h = "right" THEN rightA ELSE leftX})
        /\ UNCHANGED <<catchVars, tossVars, clockVars, alertVars, practiceVars>>
        /\ UNCHANGED widgetVars

(***************************************************************************)
(* TossChecker: what the "inf" and "instant" listeners store for a toss    *)
(* event: the expected siteswap of the hand (with the guide's velocity and *)
(* anchor, which are set and cleared together with it).                    *)
(***************************************************************************)
(***************************************************************************)
(* The guide direction.  ballVelocity belongs to the musicaljuggling        *)
(* library: for a positive flight time it gives a finite velocity; for a   *)
(* flight time that is not positive the result is the library's, finite or *)
(* not.  Vector3.normalize divides by the length, or by 1 when the length  *)
(* is 0: a finite velocity becomes a unit vector, a non-finite one has NaN *)
(* components.  TossChecker has no direction of its own to fall back on.   *)
(***************************************************************************)
ballVelocity(flightTime) ==
    IF flightTime > 0 THEN {"finite"} ELSE {"finite", "nonfinite"}
normalize(v) == IF v = "finite" THEN "unit" ELSE "nan"

setIncoming(e) ==
    LET flightTime == unitTime * siteswapHeight(e) IN
    /\ incomingSiteswapRight' =
          IF isRightHand(e) THEN siteswapHeight(e) ELSE incomingSiteswapRight
    /\ incomingSiteswapLeft' =
          IF isRightHand(e) THEN incomingSiteswapLeft ELSE siteswapHeight(e)
    /\ tossEvent' = [tossEvent EXCEPT ![e.hand] = e]
    /\ \E v \in ballVelocity(flightTime) :
          velocity' = [velocity EXCEPT ![e.hand] = normalize(v)]

(***************************************************************************)
(* TossChecker: "inf" listener (registered when makeStop is false; no      *)
(* "sup" listener is registered).                                          *)
(***************************************************************************)
CheckerInf(e) ==
    /\ ~tossPause
    /\ CanNotify
    /\ tossAlert[e] = "idle"
    /\ tossAlert' = [tossAlert EXCEPT ![e] = "open"]
    /\ notified' = notified + 1
    /\ IF e.action = "tossed"
       THEN setIncoming(e)
       ELSE UNCHANGED <<incomingSiteswapRight, incomingSiteswapLeft, tossEvent, velocity>>
    /\ out' = <<>>
    /\ last' = Step("CheckerInf", e)
    /\ UNCHANGED <<tossPause, unitTime, alert, progressAlert, matched>>
    /\ UNCHANGED <<catchVars, progressVars, clockVars, sessionVars, practiceVars>>
    /\ UNCHANGED widgetVars

(***************************************************************************)
(* TossChecker: the "sup" notification of its alert source.  No listener   *)
(* is registered for it: the window closes and TossChecker does nothing.   *)
(***************************************************************************)
CheckerSup(e) ==
    /\ ~tossPause
    /\ ~paused
    /\ tossAlert[e] = "open"
    /\ tossAlert' = [tossAlert EXCEPT ![e] = "closed"]
    /\ out' = <<>>
    /\ last' = Step("CheckerSup", e)
    /\ UNCHANGED <<alert, progressAlert, notified, matched>>
    /\ UNCHANGED <<catchVars, progressVars, tossVars, clockVars, sessionVars, practiceVars>>
    /\ UNCHANGED widgetVars

(***************************************************************************)
(* TossChecker: "instant" listener (registered when makeStop is true).     *)
(***************************************************************************)
CheckerInstant(e) ==
    /\ tossPause
    /\ CanNotify
    /\ tossAlert[e] = "idle"
    /\ tossAlert' = [tossAlert EXCEPT ![e] = "closed"]
    /\ notified' = notified + 1
    /\ IF e.action = "tossed"
       THEN /\ setIncoming(e)
            /\ paused' = TRUE
            /\ out' = <<Pause(e)>>
       ELSE /\ UNCHANGED <<incomingSiteswapRight, incomingSiteswapLeft, tossEvent, velocity,
                           paused>>
            /\ out' = <<>>
    /\ last' = Step("CheckerInstant", e)
    /\ UNCHANGED <<tossPause, unitTime, alert, progressAlert, matched, playbackRate, time>>
    /\ UNCHANGED <<catchVars, progressVars, sessionVars, practiceVars>>
    /\ UNCHANGED widgetVars

(***************************************************************************)
(* WayDetector: a frame in which the hand of side h enters the hitbox of   *)
(* the arrow.  The detector is rendered while the hand has a source and a  *)
(* guide; its single arrow carries the expected siteswap, detects only     *)
(* when that siteswap is truthy, and reports it to handleCollision, which  *)
(* calls TossChecker.successRight / successLeft.                           *)
(***************************************************************************)
handleCollisionClearsAll(h, kind, siteswap, incomingSiteswap) ==
    /\ incomingSiteswapRight' = 0
    /\ incomingSiteswapLeft' = 0
    /\ tossEvent' = [s \in Hands |-> NoEvent]
    /\ velocity' = [s \in Hands |-> "none"]
    /\ paused' = IF tossPause THEN FALSE ELSE paused
    /\ out' = (IF tossPause THEN <<Play(tossEvent[h])>> ELSE <<>>)
                 \o <<vibrateController(tossEvent[h], h, kind, 1, 50)>>
    /\ matched' = matched \cup {tossEvent[h]}
    /\ UNCHANGED errorCount

handleCollision(h, kind, siteswap, incomingSiteswap) ==
    IF siteswap = incomingSiteswap
    THEN /\ incomingSiteswapRight' = IF h = "right" THEN 0 ELSE incomingSiteswapRight
         /\ incomingSiteswapLeft' = IF h = "right" THEN incomingSiteswapLeft ELSE 0
         /\ tossEvent' = [tossEvent EXCEPT ![h] = NoEvent]
         /\ velocity' = [velocity EXCEPT ![h] = "none"]
         /\ paused' = IF tossPause THEN FALSE ELSE paused
         /\ out' = (IF tossPause THEN <<Play(tossEvent[h])>> ELSE <<>>)
                      \o <<vibrateController(tossEvent[h], h, kind, 1, 50)>>
         /\ matched' = matched \cup {tossEvent[h]}
         /\ UNCHANGED errorCount
    ELSE /\ errorCount' = errorCount + 1
         /\ out' = <<vibrateController(tossEvent[h], h, kind, 1, 200)>>
         /\ UNCHANGED <<incomingSiteswapRight, incomingSiteswapLeft, tossEvent, velocity,
                        paused, matched>>

WayFrame(h, kind) ==
    LET incomingSiteswap == IF h = "right" THEN incomingSiteswapRight
                            ELSE incomingSiteswapLeft
    IN
    /\ kind # "none"
    /\ tossEvent[h] # NoEvent
    /\ incomingSiteswap # 0
    /\ handleCollision(h, kind, incomingSiteswap, incomingSiteswap)
    /\ last' = FrameStep("WayFrame", {tossEvent[h]}, {})
    /\ UNCHANGED <<tossPause, unitTime, playbackRate, time, text>>
    /\ UNCHANGED <<catchVars, progressVars, alertVars, practiceVars>>
    /\ UNCHANGED widgetVars

(***************************************************************************)
(* TwoBallsPerformance: setTossPause changes TossChecker's makeStop prop.  *)
(* The alerts effect depends on makeStop: its cleanup removes the          *)
(* listeners of the previous alert source and a new source is built.       *)
(***************************************************************************)
SetTossPause ==
    /\ tossPause' = ~tossPause
    /\ tossAlert' = [s \in Shapes |-> "idle"]
    /\ out' = <<>>
    /\ last' = Step("SetTossPause", NoEvent)
    /\ UNCHANGED <<incomingSiteswapRight, incomingSiteswapLeft, tossEvent, velocity, unitTime>>
    /\ UNCHANGED <<alert, progressAlert, notified, matched>>
    /\ UNCHANGED <<catchVars, progressVars, clockVars, sessionVars, practiceVars>>
    /\ UNCHANGED widgetVars

(***************************************************************************)
(* The level tables of the practice tutorials (speeds in tenths) and the   *)
(* level bound each nextLevel compares with.                               *)
(***************************************************************************)
TossLevels ==
    <<[congratulations |-> <<"Super ! Vous avez compris", "Essayons un peu plus vite">>,
       speed |-> 3],
      [congratulations |-> <<"Genial ! On peut encore accelerer">>, speed |-> 5],
      [congratulations |-> <<"Vous etes au top ! Vitesse reelle maintenant">>, speed |-> 8],
      [congratulations |-> <<"Impressionnant !">>, speed |-> 10]>>
CatchLevels ==
    <<[congratulations |-> <<"Super ! Vous avez compris", "Essayons un peu plus vite">>,
       speed |-> 3],
      [congratulations |-> <<"Impressionnant !">>, speed |-> 5]>>
TossLastLevel == 4
CatchLastLevel == 2
levelsInformations == IF tutorial = "toss" THEN TossLevels ELSE CatchLevels
lastLevelOfCatch == CatchLastLevel
lastLevelBeyond == (IF tutorial = "toss" THEN TossLastLevel ELSE CatchLastLevel) + 1
lastLevel == IF tutorial = "toss" THEN TossLastLevel ELSE CatchLastLevel
hasLevel(l) == l \in DOMAIN levelsInformations /\ l \notin missing

countdownTextsShort == <<"Preparez-vous", "3", "1", "Go !">>
countdownTexts == <<"Preparez-vous", "3", "2", "1", "Go !">>
TryAgain == "Dommage, allez on reessaye"
AllLevelsDone == "Bravo ! Vous avez termine tous les niveaux !"
NowToss == "Apprenons a lancer les balles maintenant"

(***************************************************************************)
(* setText: React drops the update of a component that is unmounted.       *)
(***************************************************************************)
setText(t) == text' = IF mounted THEN t ELSE text

At(a, i) == [at |-> a, i |-> i]
Idle == At("idle", 0)

(***************************************************************************)
(* The checker of the practice reports an error during the repetition      *)
(* (errorCount.current++).  CatchPractice renders CatchChecker in stop     *)
(* mode, which registers no "sup" listener and so reports none.            *)
(***************************************************************************)
PracticeError ==
    /\ scene = "practice"
    /\ mounted
    /\ tutorial = "toss"
    /\ errorCount < MaxErrors
    /\ errorCount' = errorCount + 1
    /\ out' = <<>>
    /\ last' = Step("PracticeError", NoEvent)
    /\ UNCHANGED <<text, matched>>
    /\ UNCHANGED <<catchVars, progressVars, tossVars, clockVars, alertVars, practiceVars>>
    /\ UNCHANGED widgetVars

(***************************************************************************)
(* Clock: the running clock leaves the start of the pattern.               *)
(***************************************************************************)
ClockAdvance ==
    /\ ~paused
    /\ time = "start"
    /\ time' = "running"
    /\ out' = <<>>
    /\ last' = Step("ClockAdvance", NoEvent)
    /\ UNCHANGED <<paused, playbackRate, matched>>
    /\ UNCHANGED <<catchVars, progressVars, tossVars, alertVars, sessionVars, practiceVars>>
    /\ UNCHANGED widgetVars

(***************************************************************************)
(* nextLevel's test for repeating the level.                               *)
(***************************************************************************)
retryingMore(errors) == errors > 1

retrying(errors) == errors > 0

(***************************************************************************)
(* handleReachedEnd, with nextLevel up to its first wait.  One nextLevel   *)
(* call is followed at a time.                                             *)
(***************************************************************************)
ReachedEnd ==
    /\ scene = "practice"
    /\ mounted
    /\ pc = Idle
    /\ ~paused
    /\ time = "running"
    /\ time' = "start"
    /\ paused' = TRUE
    /\ boundary' = [level |-> level, errors |-> errorCount]
    /\ repetitions' = IF Len(repetitions) < MaxRepetitions
                      THEN Append(repetitions, [level |-> level, errors |-> errorCount])
                      ELSE repetitions
    /\ countdowns' = 0
    /\ nextInfo' = 0
    /\ IF ~hasLevel(level)
       THEN /\ pc' = Idle
            /\ outcome' = "halted"
            /\ UNCHANGED <<infos, errorCount, text>>
       ELSE /\ infos' = level
            /\ errorCount' = 0
            /\ outcome' = "pending"
            /\ IF retrying(errorCount)
               THEN /\ text' = TryAgain
                    /\ pc' = At("retry", 0)
               ELSE /\ text' = levelsInformations[level].congratulations[1]
                    /\ pc' = IF Len(levelsInformations[level].congratulations) > 1
                             THEN At("congratulations", 1) ELSE At("advance", 0)
    /\ out' = <<>>
    /\ last' = Step("ReachedEnd", NoEvent)
    /\ UNCHANGED <<tutorial, level, scene, bpc, mounted, missing, playbackRate, matched>>
    /\ UNCHANGED <<catchVars, progressVars, tossVars, alertVars>>
    /\ UNCHANGED widgetVars

(***************************************************************************)
(* nextLevel resumes after a wait: one action per position.                *)
(***************************************************************************)
RetryWaited ==
    /\ pc.at = "retry"
    /\ setText(countdownTexts[1])
    /\ pc' = At("countdown", 1)
    /\ UNCHANGED <<tutorial, level, infos, nextInfo, scene, boundary, outcome>>
    /\ UNCHANGED <<errorCount, clockVars>>

CongratulationsWaited ==
    LET congratulations == levelsInformations[infos].congratulations IN
    /\ pc.at = "congratulations"
    /\ setText(congratulations[pc.i + 1])
    /\ pc' = IF pc.i + 1 < Len(congratulations)
             THEN At("congratulations", pc.i + 1) ELSE At("advance", 0)
    /\ UNCHANGED <<tutorial, level, infos, nextInfo, scene, boundary, outcome>>
    /\ UNCHANGED <<errorCount, clockVars>>

AdvanceWaited ==
    /\ pc.at = "advance"
    /\ IF level + 1 <= lastLevel
       THEN /\ level' = level + 1
            /\ IF hasLevel(level + 1)
               THEN /\ nextInfo' = level + 1
                    /\ setText(countdownTexts[1])
                    /\ pc' = At("countdown", 1)
                    /\ UNCHANGED outcome
               ELSE /\ pc' = Idle
                    /\ outcome' = "halted"
                    /\ UNCHANGED <<nextInfo, text>>
       ELSE /\ IF tutorial = "toss"
               THEN /\ setText(AllLevelsDone)
                    /\ pc' = Idle
                    /\ outcome' = "completed"
               ELSE /\ setText(NowToss)
                    /\ pc' = At("leaving", 0)
                    /\ UNCHANGED outcome
            /\ UNCHANGED <<level, nextInfo>>
    /\ UNCHANGED <<tutorial, infos, scene, boundary>>
    /\ UNCHANGED <<errorCount, clockVars>>

LeavingWaited ==
    /\ pc.at = "leaving"
    /\ scene' = "toss-introduction"
    /\ pc' = Idle
    /\ outcome' = "completed"
    /\ UNCHANGED <<tutorial, level, infos, nextInfo, boundary>>
    /\ UNCHANGED <<sessionVars, clockVars>>

CountdownWaited ==
    /\ pc.at = "countdown"
    /\ setText(countdownTexts[pc.i + 1])
    /\ IF pc.i + 1 < Len(countdownTexts)
       THEN /\ pc' = At("countdown", pc.i + 1)
            /\ UNCHANGED <<outcome, clockVars>>
       ELSE /\ playbackRate' = levelsInformations[IF nextInfo # 0 THEN nextInfo ELSE infos].speed
            /\ time' = "start"
            /\ paused' = FALSE
            /\ pc' = Idle
            /\ outcome' = IF nextInfo # 0 THEN "advanced" ELSE "retried"
    /\ UNCHANGED <<tutorial, level, infos, nextInfo, scene, boundary>>
    /\ UNCHANGED errorCount

NextLevelStep ==
    /\ \/ RetryWaited
       \/ CongratulationsWaited
       \/ AdvanceWaited
       \/ LeavingWaited
       \/ CountdownWaited
    /\ countdowns' = IF pc.at # "countdown" /\ pc'.at = "countdown"
                     THEN countdowns + 1 ELSE countdowns
    /\ out' = <<>>
    /\ last' = Step("NextLevelStep", NoEvent)
    /\ UNCHANGED <<bpc, mounted, repetitions, missing, matched>>
    /\ UNCHANGED <<catchVars, progressVars, tossVars, alertVars>>
    /\ UNCHANGED widgetVars

(***************************************************************************)
(* The B button of the practice (useFrame, past its debounce): on a paused *)
(* clock it starts a countdown of its own that ends with clock.play(); on  *)
(* a playing clock it pauses and shows "Pause".  The handler tests nothing *)
(* but the clock; one countdown of the button is followed at a time.       *)
(***************************************************************************)
BPressed ==
    /\ scene = "practice"
    /\ mounted
    /\ bpc = Idle
    /\ IF paused
       THEN /\ text' = countdownTexts[1]
            /\ bpc' = At("countdown", 1)
            /\ UNCHANGED paused
       ELSE /\ paused' = TRUE
            /\ text' = "Pause"
            /\ UNCHANGED bpc
    /\ out' = <<>>
    /\ last' = Step("BPressed", NoEvent)
    /\ UNCHANGED <<tutorial, level, pc, infos, nextInfo, scene, boundary, outcome>>
    /\ UNCHANGED <<mounted, repetitions, countdowns, missing>>
    /\ UNCHANGED <<errorCount, playbackRate, time, matched>>
    /\ UNCHANGED <<catchVars, progressVars, tossVars, alertVars>>
    /\ UNCHANGED widgetVars

BCountdownWaited ==
    /\ bpc.at = "countdown"
    /\ setText(countdownTexts[bpc.i + 1])
    /\ IF bpc.i + 1 < Len(countdownTexts)
       THEN /\ bpc' = At("countdown", bpc.i + 1)
            /\ UNCHANGED paused
       ELSE /\ bpc' = Idle
            /\ paused' = FALSE
    /\ out' = <<>>
    /\ last' = Step("BCountdownWaited", NoEvent)
    /\ UNCHANGED <<tutorial, level, pc, infos, nextInfo, scene, boundary, outcome>>
    /\ UNCHANGED <<mounted, repetitions, countdowns, missing>>
    /\ UNCHANGED <<errorCount, playbackRate, time, matched>>
    /\ UNCHANGED <<catchVars, progressVars, tossVars, alertVars>>
    /\ UNCHANGED widgetVars

(***************************************************************************)
(* The practice component is torn down (the parent shows another scene):   *)
(* the cleanup of its effect removes the reachedEnd listener.  The timers  *)
(* of a pending nextLevel call are not touched.                            *)
(***************************************************************************)
Unmount ==
    /\ mounted
    /\ mounted' = FALSE
    /\ out' = <<>>
    /\ last' = Step("Unmount", NoEvent)
    /\ UNCHANGED <<tutorial, level, pc, infos, nextInfo, scene, boundary, outcome>>
    /\ UNCHANGED <<bpc, repetitions, countdowns, missing, matched>>
    /\ UNCHANGED <<catchVars, progressVars, tossVars, clockVars, alertVars, sessionVars>>
    /\ UNCHANGED widgetVars

(***************************************************************************)
(* FollowTrajectory: the balls held in each hand, kept from the "instant"  *)
(* notifications of the catches and tosses.                                *)
(***************************************************************************)
FollowInstant(e) ==
    /\ e.action = "caught" =>
          Len(IF isRightHand(e) THEN ballToFollowRight ELSE ballToFollowLeft) < MaxFollow
    /\ ballToFollowRight' =
          IF e.action = "caught" /\ isRightHand(e) THEN Append(ballToFollowRight, e.ball)
          ELSE IF e.action = "tossed"
               THEN splice(ballToFollowRight, indexOf(ballToFollowRight, e.ball))
          ELSE ballToFollowRight
    /\ ballToFollowLeft' =
          IF e.action = "caught" /\ ~isRightHand(e) THEN Append(ballToFollowLeft, e.ball)
          ELSE IF e.action = "tossed"
               THEN splice(ballToFollowLeft, indexOf(ballToFollowLeft, e.ball))
          ELSE ballToFollowLeft
    /\ out' = <<>>
    /\ last' = Step("FollowInstant", e)
    /\ UNCHANGED <<resetSignal, followReset, matched, handVars, sliderVars, introVars>>
    /\ UNCHANGED <<catchVars, progressVars, tossVars, clockVars, alertVars, sessionVars,
                   practiceVars>>

(***************************************************************************)
(* The end of the figure.  The version of FollowTrajectory without reset   *)
(* prop listens to the clock itself.                                       *)
(***************************************************************************)
clearList ==
    /\ ~followReset
    /\ ballToFollowLeft' = <<>>
    /\ ballToFollowRight' = <<>>
    /\ out' = <<>>
    /\ last' = Step("clearList", NoEvent)
    /\ UNCHANGED <<resetSignal, followReset, matched, handVars, sliderVars, introVars>>
    /\ UNCHANGED <<catchVars, progressVars, tossVars, clockVars, alertVars, sessionVars,
                   practiceVars>>

(***************************************************************************)
(* The version with the reset prop is emptied by an effect that runs when  *)
(* the prop has changed.  TwoBallsPerformance (in training: no nextLevel)  *)
(* sets the state from the handler registered at mount, whose closure      *)
(* holds the resetSignal of the first render.                              *)
(***************************************************************************)
resetSignalAtMount == 0

handleReachedEnd ==
    /\ followReset
    /\ resetSignal' = resetSignalAtMount + 1
    /\ IF resetSignal' # resetSignal
       THEN /\ ballToFollowLeft' = <<>>
            /\ ballToFollowRight' = <<>>
       ELSE UNCHANGED <<ballToFollowLeft, ballToFollowRight>>
    /\ out' = <<>>
    /\ last' = Step("handleReachedEnd", NoEvent)
    /\ UNCHANGED <<followReset, matched, handVars, sliderVars, introVars>>
    /\ UNCHANGED <<catchVars, progressVars, tossVars, clockVars, alertVars, sessionVars,
                   practiceVars>>

(***************************************************************************)
(* Hand gestures (handState.ts).  Distances are in millimetres.  A frame   *)
(* is absent ("none"), lacks getJointPose ("bare") or is complete; a hand  *)
(* is measured ("ok"), lacks its joints or lacks the poses of its joints.  *)
(***************************************************************************)
pinchThreshold == 25
pinchMiddleThreshold == 25
openHandThreshold == 80
Frames == {"none", "bare", "full"}
Gestures == {"pinch", "pinch-middle", "opened", "closed"}
PinchDistances == {pinchThreshold - 1, pinchThreshold}
PalmDistances == {openHandThreshold, openHandThreshold + 1}
HandInputs ==
    [track : {"ok"}, pinch : PinchDistances, middle : PinchDistances, palm : PalmDistances]
        \cup [track : {"nojoint", "nopose"}, pinch : {Null}, middle : {Null}, palm : {Null}]
NoGesture == [g \in Gestures |-> [h \in Hands |-> FALSE]]
NoHandCall == [called |-> FALSE, hand |-> FALSE, frame |-> "none", referenceSpace |-> FALSE,
               s |-> [track |-> "nojoint", pinch |-> Null, middle |-> Null, palm |-> Null],
               result |-> FALSE]

isPinching(hand, frame, referenceSpace, s, threshold) ==
    IF ~(hand /\ frame = "full" /\ referenceSpace) THEN FALSE
    ELSE IF s.track = "nojoint" THEN FALSE
    ELSE IF s.track = "nopose" THEN FALSE
    ELSE s.pinch < threshold

isPinchingMiddle(hand, frame, referenceSpace, s, threshold) ==
    IF ~(hand /\ frame = "full" /\ referenceSpace) THEN FALSE
    ELSE IF s.track = "nojoint" THEN FALSE
    ELSE IF s.track = "nopose" THEN FALSE
    ELSE s.middle < threshold

isOpenHand(hand, frame, referenceSpace, s, threshold) ==
    IF ~(hand /\ frame = "full" /\ referenceSpace) THEN FALSE
    ELSE IF s.track = "nojoint" THEN FALSE
    ELSE IF s.track = "nopose" THEN FALSE
    ELSE s.palm > threshold

isCloseHand(hand, frame, referenceSpace, s, threshold) ==
    IF ~(hand /\ frame = "full" /\ referenceSpace) THEN FALSE
    ELSE ~isOpenHand(hand, frame, referenceSpace, s, threshold)

(***************************************************************************)
(* HandState.update, of a HandState built with both hands: per gesture and *)
(* side, an event on the rising edge of the test against the was-flag.     *)
(***************************************************************************)
gestureTests(frame, referenceSpace, r, l) ==
    LET of(h) == IF h = "right" THEN r ELSE l
    IN  [g \in Gestures |-> [h \in Hands |->
            CASE g = "pinch" -> isPinching(TRUE, frame, referenceSpace, of(h), pinchThreshold)
              [] g = "pinch-middle" ->
                    isPinchingMiddle(TRUE, frame, referenceSpace, of(h), pinchMiddleThreshold)
              [] g = "opened" -> isOpenHand(TRUE, frame, referenceSpace, of(h), openHandThreshold)
              [] g = "closed" ->
                    isCloseHand(TRUE, frame, referenceSpace, of(h), openHandThreshold)]]

wasFlag(g) ==
    CASE g = "pinch" -> wasPinching
      [] g = "pinch-middle" -> wasPinchingMiddle
      [] g = "opened" -> wasOpenHand
      [] g = "closed" -> wasCloseHand

update(frame, referenceSpace, r, l) ==
    LET tests == gestureTests(frame, referenceSpace, r, l)
    IN  /\ IF frame = "none" \/ ~referenceSpace
           THEN /\ dispatched' = {}
                /\ UNCHANGED <<wasPinching, wasPinchingMiddle, wasOpenHand, wasCloseHand>>
           ELSE /\ dispatched' = {<<g, h>> \in Gestures \X Hands :
                                     tests[g][h] /\ ~wasFlag(g)[h]}
                /\ wasPinching' = tests["pinch"]
                /\ wasPinchingMiddle' = tests["pinch-middle"]
                /\ wasOpenHand' = tests["opened"]
                /\ wasCloseHand' = tests["closed"]
        /\ detected' = tests
        /\ out' = <<>>
        /\ last' = Step("update", NoEvent)
        /\ UNCHANGED <<handCall, followVars, sliderVars, introVars, matched>>
        /\ UNCHANGED <<catchVars, progressVars, tossVars, clockVars, alertVars, sessionVars,
                       practiceVars>>

(***************************************************************************)
(* A direct call of isCloseHand, as the time controls make on each frame.  *)
(***************************************************************************)
isCloseHandCall(hand, frame, referenceSpace, s) ==
    /\ handCall' = [called |-> TRUE, hand |-> hand, frame |-> frame,
                     referenceSpace |-> referenceSpace, s |-> s,
                     result |-> isCloseHand(hand, frame, referenceSpace, s, openHandThreshold)]
    /\ out' = <<>>
    /\ last' = Step("isCloseHand", NoEvent)
    /\ UNCHANGED <<wasPinching, wasPinchingMiddle, wasOpenHand, wasCloseHand, detected,
                   dispatched, followVars, sliderVars, introVars, matched>>
    /\ UNCHANGED <<catchVars, progressVars, tossVars, clockVars, alertVars, sessionVars,
                   practiceVars>>

(***************************************************************************)
(* SimpleSlider: the virtual bounds of the clock.  The clock runs from 0   *)
(* to ClockEnd; a position k of the track stands for -width/2 + k * width  *)
(* / SliderSteps.                                                          *)
(***************************************************************************)
ClockEnd == 2 * SliderSteps
Times == 0..ClockEnd
SliderPositions == 0..SliderSteps

positionToTime(positionX) ==
    LET clampedX == IF positionX < 0 THEN 0
                    ELSE IF positionX > SliderSteps THEN SliderSteps ELSE positionX
        minTime == 0
        maxTime == ClockEnd
    IN  minTime + (clampedX * (maxTime - minTime)) \div SliderSteps

(***************************************************************************)
(* The effects of a render: each bound is recomputed when the position of  *)
(* its marker differs from the one the previous render saw.                *)
(***************************************************************************)
boundEffects(t) ==
    /\ supTime' = IF supDep # supPositionRef THEN positionToTime(supPositionRef) ELSE supTime
    /\ infTime' = IF infDep # infPositionRef THEN positionToTime(infPositionRef) ELSE infTime
    /\ clockTime' = IF infDep # infPositionRef /\ t < infTime' THEN infTime' ELSE t
    /\ supDep' = supPositionRef
    /\ infDep' = infPositionRef

handleBornePassing(t) ==
    /\ clockTime' = IF t < infTime THEN infTime
                    ELSE IF t > supTime THEN infTime
                    ELSE t
    /\ paused' = IF t > supTime /\ ~loop THEN TRUE ELSE paused

timeUpdate(t) ==
    /\ handleBornePassing(t)
    /\ out' = <<>>
    /\ last' = Step("timeUpdate", NoEvent)
    /\ UNCHANGED <<infPositionRef, supPositionRef, infTime, supTime, infDep, supDep, dragging,
                   loop>>
    /\ UNCHANGED <<catchVars, progressVars, tossVars, playbackRate, time, alertVars,
                   sessionVars, practiceVars, followVars, handVars, introVars, matched>>

handlePointerDown(target) ==
    /\ dragging = "none"
    /\ dragging' = target
    /\ boundEffects(clockTime)
    /\ out' = <<>>
    /\ last' = Step("handlePointerDown", NoEvent)
    /\ UNCHANGED <<infPositionRef, supPositionRef, loop>>
    /\ UNCHANGED <<catchVars, progressVars, tossVars, clockVars, alertVars,
                   sessionVars, practiceVars, followVars, handVars, introVars, matched>>

handlePointerMove(k) ==
    /\ dragging # "none"
    /\ clockTime' = IF dragging = "cursor" THEN positionToTime(k) ELSE clockTime
    /\ infPositionRef' = IF dragging = "inf" THEN k ELSE infPositionRef
    /\ supPositionRef' = IF dragging = "sup" THEN k ELSE supPositionRef
    /\ out' = <<>>
    /\ last' = Step("handlePointerMove", NoEvent)
    /\ UNCHANGED <<infTime, supTime, infDep, supDep, dragging, loop>>
    /\ UNCHANGED <<catchVars, progressVars, tossVars, clockVars, alertVars,
                   sessionVars, practiceVars, followVars, handVars, introVars, matched>>

handlePointerUp ==
    /\ dragging # "none"
    /\ dragging' = "none"
    /\ boundEffects(clockTime)
    /\ out' = <<>>
    /\ last' = Step("handlePointerUp", NoEvent)
    /\ UNCHANGED <<infPositionRef, supPositionRef, loop>>
    /\ UNCHANGED <<catchVars, progressVars, tossVars, clockVars, alertVars,
                   sessionVars, practiceVars, followVars, handVars, introVars, matched>>

(***************************************************************************)
(* The loop mode of the clock is switched from the time controls.          *)
(***************************************************************************)
setLoop ==
    /\ loop' = ~loop
    /\ out' = <<>>
    /\ last' = Step("setLoop", NoEvent)
    /\ UNCHANGED <<infPositionRef, supPositionRef, infTime, supTime, infDep, supDep, dragging,
                   clockTime>>
    /\ UNCHANGED <<catchVars, progressVars, tossVars, clockVars, alertVars,
                   sessionVars, practiceVars, followVars, handVars, introVars, matched>>

(***************************************************************************)
(* TossIntroduction: the texts of the introduction, stepped forward by OK  *)
(* (pinch, B) and backward by Cancel (middle pinch, Y), at most one action *)
(* every ClickDebounce frames.  change("toss-practice") makes the parent   *)
(* show the practice instead of the introduction.                          *)
(***************************************************************************)
texts == <<"Au moment de lancer une balle, appuyez sur X (manette gauche), et A (manette droite)",
           "Des fleches apparaitront et se coloreront en fonction du lancer",
           "Suivez-les pour valider le lancer",
           "Appuyez sur B pour passer a la pratique">>
ClickDebounce == 100
PauseFrom == 3
textAt(i) == IF i + 1 \in DOMAIN texts THEN texts[i + 1] ELSE "undefined"

handleOK ==
    /\ currentProgression' = currentProgression + 1
    /\ introText' = textAt(currentProgression')
    /\ introScene' = IF currentProgression' >= Len(texts) THEN "toss-practice" ELSE introScene
    /\ introPaused' = IF currentProgression' >= PauseFrom THEN TRUE ELSE introPaused

handleCancelUnguarded ==
    /\ currentProgression' = currentProgression - 1
    /\ introText' = textAt(currentProgression')
    /\ introPaused' = IF currentProgression' < PauseFrom THEN FALSE ELSE introPaused
    /\ UNCHANGED introScene

handleCancel ==
    /\ currentProgression' = IF currentProgression - 1 >= 0 THEN currentProgression - 1
                             ELSE currentProgression
    /\ introText' = textAt(currentProgression')
    /\ introPaused' = IF currentProgression' < PauseFrom THEN FALSE ELSE introPaused
    /\ UNCHANGED introScene

IntroFrame(pinch, pinchMiddle, rightB, leftY) ==
    LET call == IF pinch THEN "ok"
                ELSE IF pinchMiddle THEN "cancel"
                ELSE IF rightB THEN "ok"
                ELSE IF leftY THEN "cancel"
                ELSE "none"
    IN  /\ introScene = "toss-introduction"
        /\ IF call # "none" /\ clickAge > ClickDebounce
           THEN /\ IF call = "ok" THEN handleOK ELSE handleCancel
                /\ clickAge' = 1
                /\ accepted' = call
           ELSE /\ clickAge' = IF clickAge > ClickDebounce THEN clickAge ELSE clickAge + 1
                /\ accepted' = "none"
                /\ UNCHANGED <<currentProgression, introText, introPaused, introScene>>
        /\ out' = <<>>
        /\ last' = Step("IntroFrame", NoEvent)
        /\ UNCHANGED <<catchVars, progressVars, tossVars, clockVars, alertVars, sessionVars,
                       practiceVars, followVars, handVars, sliderVars, matched>>

(***************************************************************************)
(* Initial state: the components are mounted, the learner has started the  *)
(* clock, nothing has been notified.                                       *)
(***************************************************************************)
InitCore ==
    /\ listenedEvent = <<>>
    /\ hasCatchRight = FALSE
    /\ hasCatchLeft = FALSE
    /\ makeStop \in BOOLEAN
    /\ catchListeners = IF makeStop THEN "instant" ELSE "window"
    /\ ballsRef \in {Balls, Balls \ {NumBalls}}
    /\ tossListenedEvent = <<>>
    /\ Aclick = FALSE
    /\ Xclick = FALSE
    /\ incomingSiteswapRight = 0
    /\ incomingSiteswapLeft = 0
    /\ tossPause \in BOOLEAN
    /\ tossEvent = [h \in Hands |-> NoEvent]
    /\ velocity = [h \in Hands |-> "none"]
    /\ unitTime \in UnitTimes
    /\ errorCount = 0
    /\ text = PressBToStart
    /\ paused = FALSE
    /\ playbackRate = 3
    /\ time = "start"
    /\ alert = [s \in Shapes |-> "idle"]
    /\ progressAlert = [s \in Shapes |-> "idle"]
    /\ tossAlert = [s \in Shapes |-> "idle"]
    /\ notified = 0
    /\ tutorial \in {"toss", "catch"}
    /\ level = 1
    /\ pc = Idle
    /\ infos = 0
    /\ nextInfo = 0
    /\ scene = "practice"
    /\ boundary = [level |-> 0, errors |-> 0]
    /\ outcome = "none"
    /\ bpc = Idle
    /\ mounted = TRUE
    /\ repetitions = <<>>
    /\ countdowns = 0
    /\ missing \in MissingLevels
    /\ out = <<>>
    /\ last = Step("Init", NoEvent)
    /\ matched = {}

(***************************************************************************)
(* FollowTrajectory at mount: nothing is followed.  TwoBallsPerformance    *)
(* mounts the version that takes the reset prop, resetSignal starting at 0.*)
(***************************************************************************)
InitFollowLists ==
    /\ ballToFollowLeft = <<>>
    /\ ballToFollowRight = <<>>
    /\ resetSignal = 0

InitHandState ==
    /\ wasPinching = [h \in Hands |-> FALSE]
    /\ wasPinchingMiddle = [h \in Hands |-> FALSE]
    /\ wasOpenHand = [h \in Hands |-> FALSE]
    /\ wasCloseHand = [h \in Hands |-> FALSE]
    /\ detected = NoGesture
    /\ dispatched = {}
    /\ handCall = NoHandCall

InitSlider ==
    /\ infPositionRef = 0
    /\ supPositionRef = SliderSteps
    /\ infTime = positionToTime(0)
    /\ supTime = positionToTime(SliderSteps)
    /\ infDep = 0
    /\ supDep = SliderSteps
    /\ dragging = "none"
    /\ clockTime = 0
    /\ loop = FALSE

InitIntro ==
    /\ currentProgression = 0
    /\ clickAge = 0
    /\ accepted = "none"
    /\ introText = texts[1]
    /\ introPaused = FALSE
    /\ introScene = "toss-introduction"

InitWidgets ==
    /\ InitFollowLists
    /\ followReset = TRUE
    /\ InitHandState
    /\ InitSlider
    /\ InitIntro

Init == InitCore /\ InitWidgets

FrameInputs == {<<k, p>> : k \in {"controller", "hand"}, p \in Positions}
                  \cup {<<"hand", Null>>, <<"none", Null>>}

CatchFrameStep ==
    \/ \E r \in FrameInputs, l \in FrameInputs : CatchFrame(TRUE, r[1], r[2], l[1], l[2])
    \/ CatchFrame(FALSE, "none", Null, "none", Null)

Next ==
    \/ \E e \in Shapes : CatchInf(e)
    \/ \E e \in Shapes : CatchSup(e)
    \/ \E e \in Shapes : CatchInstant(e)
    \/ CatchFrameStep
    \/ SetCatchPause
    \/ \E e \in Shapes : TossInf(e)
    \/ \E e \in Shapes : TossSup(e)
    \/ \E rightA \in BOOLEAN, leftX \in BOOLEAN : TossFrame(rightA, leftX)
    \/ \E e \in Shapes : CheckerInf(e)
    \/ \E e \in Shapes : CheckerSup(e)
    \/ \E e \in Shapes : CheckerInstant(e)
    \/ \E h \in Hands, kind \in {"controller", "hand"} : WayFrame(h, kind)
    \/ SetTossPause
    \/ PracticeError
    \/ ClockAdvance
    \/ ReachedEnd
    \/ NextLevelStep
    \/ BPressed
    \/ BCountdownWaited
    \/ Unmount
    \/ \E e \in Shapes : FollowInstant(e)
    \/ clearList
    \/ handleReachedEnd
    \/ \E frame \in Frames, referenceSpace \in BOOLEAN, r \in HandInputs, l \in HandInputs :
          update(frame, referenceSpace, r, l)
    \/ \E hand \in BOOLEAN, frame \in Frames, referenceSpace \in BOOLEAN, s \in HandInputs :
          isCloseHandCall(hand, frame, referenceSpace, s)
    \/ \E t \in Times : timeUpdate(t)
    \/ \E target \in {"cursor", "inf", "sup"} : handlePointerDown(target)
    \/ \E k \in SliderPositions : handlePointerMove(k)
    \/ handlePointerUp
    \/ setLoop
    \/ \E pinch \in BOOLEAN, pinchMiddle \in BOOLEAN, rightB \in BOOLEAN, leftY \in BOOLEAN :
          IntroFrame(pinch, pinchMiddle, rightB, leftY)

Spec == Init /\ [][Next]_vars

(***************************************************************************)
(* CatchChecker in window mode, as TwoBallsPerformance mounts it.          *)
(***************************************************************************)
InitCatchWindow ==
    Init /\ ~makeStop /\ tossPause /\ tutorial = "catch" /\ unitTime = 1 /\ missing = {}
NextCatchWindow ==
    \/ \E e \in Shapes : CatchInf(e)
    \/ \E e \in Shapes : CatchSup(e)
    \/ CatchFrameStep
SpecCatchWindow == InitCatchWindow /\ [][NextCatchWindow]_vars

(***************************************************************************)
(* The same, with a clock that keeps advancing: a window that is open is   *)
(* eventually closed by the alert source.                                  *)
(***************************************************************************)
SpecCatchLive ==
    /\ InitCatchWindow
    /\ [][NextCatchWindow]_vars
    /\ \A e \in Shapes : WF_vars(CatchSup(e))

(***************************************************************************)
(* TossProgress, as TossLeft mounts it.                                    *)
(***************************************************************************)
InitTossProgress ==
    Init /\ ~makeStop /\ tossPause /\ tutorial = "toss" /\ unitTime = 1 /\ missing = {}
NextTossProgress ==
    \/ \E e \in Shapes : TossInf(e)
    \/ \E e \in Shapes : TossSup(e)
    \/ \E rightA \in BOOLEAN, leftX \in BOOLEAN : TossFrame(rightA, leftX)
SpecTossProgress == InitTossProgress /\ [][NextTossProgress]_vars

(***************************************************************************)
(* TossChecker with its WayDetectors, as TwoBallsPerformance mounts it     *)
(* (tossPause starts true and is switched from the time controls).         *)
(***************************************************************************)
InitTossChecker ==
    /\ Init /\ ~makeStop /\ tossPause /\ tutorial = "catch" /\ ballsRef = Balls
    /\ unitTime = 1 /\ missing = {}
NextTossChecker ==
    \/ \E e \in Shapes : CheckerInf(e)
    \/ \E e \in Shapes : CheckerSup(e)
    \/ \E e \in Shapes : CheckerInstant(e)
    \/ \E h \in Hands, kind \in {"controller", "hand"} : WayFrame(h, kind)
    \/ SetTossPause
SpecTossChecker == InitTossChecker /\ [][NextTossChecker]_vars

(***************************************************************************)
(* TwoBallsPerformance: CatchChecker (catchPause starts false and is       *)
(* switched from the time controls) next to TossChecker in stop mode.      *)
(***************************************************************************)
NextPerformance ==
    \/ \E e \in Shapes : CatchInf(e)
    \/ \E e \in Shapes : CatchSup(e)
    \/ CatchFrameStep
    \/ SetCatchPause
    \/ \E e \in Shapes : CheckerInstant(e)
    \/ \E h \in Hands, kind \in {"controller", "hand"} : WayFrame(h, kind)
SpecPerformance == InitTossChecker /\ [][NextPerformance]_vars

(***************************************************************************)
(* The level progression of TossLeft and CatchPractice.                    *)
(***************************************************************************)
InitPractice ==
    /\ Init /\ makeStop = (tutorial = "catch") /\ tossPause /\ ballsRef = Balls
    /\ unitTime = 1 /\ missing = {}
NextPractice ==
    \/ PracticeError
    \/ ClockAdvance
    \/ ReachedEnd
    \/ NextLevelStep
SpecPractice == InitPractice /\ [][NextPractice]_vars

(***************************************************************************)
(* The progression with the B button of the practice.                      *)
(***************************************************************************)
NextPracticeButton ==
    \/ NextPractice
    \/ BPressed
    \/ BCountdownWaited
SpecPracticeButton == InitPractice /\ [][NextPracticeButton]_vars

(***************************************************************************)
(* The progression of a practice that can be torn down at any moment.      *)
(***************************************************************************)
NextPracticeTeardown ==
    \/ NextPractice
    \/ Unmount
SpecPracticeTeardown == InitPractice /\ [][NextPracticeTeardown]_vars

(***************************************************************************)
(* The progression over a level table that may lack an entry.              *)
(***************************************************************************)
InitPracticeTable ==
    /\ Init /\ makeStop = (tutorial = "catch") /\ tossPause /\ ballsRef = Balls
    /\ unitTime = 1
SpecPracticeTable == InitPracticeTable /\ [][NextPractice]_vars

(***************************************************************************)
(* TossChecker on a pattern whose beat duration may be malformed.          *)
(***************************************************************************)
InitTossGuide ==
    Init /\ ~makeStop /\ tossPause /\ tutorial = "catch" /\ ballsRef = Balls /\ missing = {}
SpecTossGuide == InitTossGuide /\ [][NextTossChecker]_vars

(***************************************************************************)
(* CatchChecker and TossProgress, each notified by its own alert source of *)
(* the windows of the events it tracks.                                    *)
(***************************************************************************)
NextWindows ==
    \/ NextCatchWindow
    \/ NextTossProgress
SpecWindows == InitCatchWindow /\ [][NextWindows]_vars

(***************************************************************************)
(* FollowTrajectory, in either version, notified by its alert source and   *)
(* by the end of the figure.                                               *)
(***************************************************************************)
InitFollow ==
    /\ InitCore /\ ~makeStop /\ tossPause /\ tutorial = "catch" /\ ballsRef = Balls
    /\ unitTime = 1 /\ missing = {}
    /\ InitFollowLists
    /\ followReset \in BOOLEAN
    /\ InitHandState
    /\ InitSlider
    /\ InitIntro
NextFollow ==
    \/ \E e \in Shapes : FollowInstant(e)
    \/ clearList
    \/ handleReachedEnd
SpecFollow == InitFollow /\ [][NextFollow]_vars

(***************************************************************************)
(* A HandState updated on every frame; the gesture tests called directly.  *)
(***************************************************************************)
InitHand ==
    /\ InitCore /\ ~makeStop /\ tossPause /\ tutorial = "toss" /\ ballsRef = Balls
    /\ unitTime = 1 /\ missing = {}
    /\ InitWidgets
NextHand ==
    \E frame \in Frames, referenceSpace \in BOOLEAN, r \in HandInputs, l \in HandInputs :
        update(frame, referenceSpace, r, l)
SpecHand == InitHand /\ [][NextHand]_vars
NextHandTests ==
    \E hand \in BOOLEAN, frame \in Frames, referenceSpace \in BOOLEAN, s \in HandInputs :
        isCloseHandCall(hand, frame, referenceSpace, s)
SpecHandTests == InitHand /\ [][NextHandTests]_vars

(***************************************************************************)
(* SimpleSlider on a clock whose time is updated by the clock itself or by *)
(* a seek.                                                                 *)
(***************************************************************************)
InitSliderScene ==
    /\ InitCore /\ ~makeStop /\ tossPause /\ tutorial = "catch" /\ ballsRef = Balls
    /\ unitTime = 1 /\ missing = {}
    /\ InitWidgets
NextSlider ==
    \/ \E t \in Times : timeUpdate(t)
    \/ \E target \in {"cursor", "inf", "sup"} : handlePointerDown(target)
    \/ \E k \in SliderPositions : handlePointerMove(k)
    \/ handlePointerUp
    \/ setLoop
SpecSlider == InitSliderScene /\ [][NextSlider]_vars

(***************************************************************************)
(* The toss introduction, frame by frame.                                  *)
(***************************************************************************)
InitIntroScene ==
    /\ InitCore /\ ~makeStop /\ tossPause /\ tutorial = "toss" /\ ballsRef = Balls
    /\ unitTime = 1 /\ missing = {}
    /\ InitWidgets
NextIntro ==
    \E pinch \in BOOLEAN, pinchMiddle \in BOOLEAN, rightB \in BOOLEAN, leftY \in BOOLEAN :
        IntroFrame(pinch, pinchMiddle, rightB, leftY)
SpecIntro == InitIntroScene /\ [][NextIntro]_vars

(***************************************************************************)
(* Helpers of the properties.                                              *)
(***************************************************************************)
MissFor(o, e) == \E k \in 1..Len(o) : o[k].type = "miss" /\ o[k].ev = e
PulsesFor(o, e) == {k \in 1..Len(o) : o[k].type = "pulse" /\ o[k].ev = e}
AnyPulse(o) == \E k \in 1..Len(o) : o[k].type = "pulse"
Fired(o, h) ==
    \E k \in 1..Len(o) : o[k].side = h /\ o[k].type \in {"explode", "spurious"}
flagOf(e) == IF isRightHand(e) THEN Aclick ELSE Xclick
levelSpeed(l) == levelsInformations[l].speed

(***************************************************************************)
(* C1: at the "sup" notification of a catch window, CatchChecker records a *)
(* miss if and only if that same event instance was not matched while its  *)
(* window was open, also when windows of one hand overlap.                 *)
(***************************************************************************)
C1_MissIffUnmatched ==
    (last.act = "CatchSup" /\ last.ev.action = "caught")
        => (MissFor(out, last.ev) <=> last.ev \notin matched)

(***************************************************************************)
(* C2: once an event has been matched, no later step (frame, held input,   *)
(* window close) produces a further success or failure for that event.     *)
(***************************************************************************)
C2_NoOutcomeAfterMatch ==
    [][\A e \in matched : \A k \in 1..Len(out') : out'[k].ev # e]_vars

(***************************************************************************)
(* C3: in window mode, with a clock that keeps advancing, every catch      *)
(* event that is in CatchChecker's active list eventually leaves it.       *)
(***************************************************************************)
C3_EveryWindowLeaves ==
    \A e \in Shapes : InList(listenedEvent, e) ~> ~InList(listenedEvent, e)

C3_ClosedUnmatched ==
    /\ last.act = "CatchSup"
    /\ last.ev.action = "caught"
    /\ last.ev \notin matched
    /\ MissFor(out, last.ev)
    /\ ~InList(listenedEvent, last.ev)

(***************************************************************************)
(* C4: a nextLevel call started at a reachedEnd with ErrorCounter >= 1     *)
(* never changes the level and ends by restarting the pattern from its     *)
(* start at that level's rate; one started with ErrorCounter = 0 ends with *)
(* the level advanced by exactly one, or, at the last level, with the      *)
(* level unchanged and the practice completed.                             *)
(***************************************************************************)
C4_BoundaryDecidesLevel ==
    [][/\ (pc # Idle /\ boundary.errors >= 1) => level' = boundary.level
       /\ (pc # Idle /\ pc' = Idle) =>
            IF boundary.errors >= 1
            THEN /\ level' = boundary.level
                 /\ playbackRate' = levelSpeed(boundary.level)
                 /\ time' = "start"
                 /\ ~paused'
            ELSE IF boundary.level < lastLevel
            THEN /\ level' = boundary.level + 1
                 /\ playbackRate' = levelSpeed(boundary.level + 1)
                 /\ time' = "start"
                 /\ ~paused'
            ELSE /\ level' = boundary.level
                 /\ outcome' = "completed"]_vars

C4_RetriedAtSecondLevel ==
    /\ outcome = "retried"
    /\ boundary = [level |-> 2, errors |-> 1]
    /\ level = 2
    /\ playbackRate = 5
    /\ time = "start"
    /\ ~paused

(***************************************************************************)
(* C5: a button held over consecutive frames fires for its hand at most    *)
(* once: two frames in a row with the button down do not both fire.        *)
(***************************************************************************)
C5_HeldButtonFiresOnce ==
    [][\A h \in Hands :
          (/\ last.act = "TossFrame" /\ h \in last.pressed /\ Fired(out, h)
           /\ last'.act = "TossFrame" /\ h \in last'.pressed)
             => ~Fired(out', h)]_vars

(***************************************************************************)
(* C6: the clock is never playing while an event notified in stop mode is  *)
(* still awaiting its match.                                               *)
(***************************************************************************)
C6_PausedWhileAwaiting ==
    /\ (tossPause /\ \E h \in Hands : tossEvent[h] # NoEvent) => paused
    /\ (catchListeners = "instant" /\ listenedEvent # <<>>) => paused

(***************************************************************************)
(* C7: when the alert source is torn down and a new one is attached, the   *)
(* active windows of the previous source have been cleared.                *)
(***************************************************************************)
C7_ClearedOnTeardown ==
    last.act = "SetTossPause" =>
        /\ \A h \in Hands : tossEvent[h] = NoEvent
        /\ incomingSiteswapRight = 0
        /\ incomingSiteswapLeft = 0

(***************************************************************************)
(* C8: right after a window opens for a hand, the outcome flag of that     *)
(* hand is false.                                                          *)
(***************************************************************************)
C8_FlagFalseAfterOpen ==
    (last.act = "TossInf" /\ last.ev.action = "tossed"
        /\ InList(tossListenedEvent, last.ev))
        => ~flagOf(last.ev)

(***************************************************************************)
(* C9: when a catch window closes and its event was not matched, the error *)
(* counter is incremented by one, the status text is the missed-catch      *)
(* message of that hand, and no haptic pulse is fired.                     *)
(***************************************************************************)
C9_UnmatchedCloseIsMiss ==
    [][(last'.act = "CatchSup" /\ last'.ev.action = "caught" /\ last'.ev \notin matched')
          => /\ errorCount' = errorCount + 1
             /\ text' = (IF isRightHand(last'.ev) THEN MissedCatchRight ELSE MissedCatchLeft)
             /\ ~AnyPulse(out')]_vars

(***************************************************************************)
(* C10: after a frame in which the hand of an open catch window is within  *)
(* the ball's radius, the event is matched and exactly one haptic pulse    *)
(* has been fired for it.                                                  *)
(***************************************************************************)
C10_HandAtBallMatches ==
    last.act = "CatchFrame" =>
        \A e \in last.near : e \in matched /\ Cardinality(PulsesFor(out, e)) = 1

(***************************************************************************)
(* Further helpers of the properties.                                      *)
(***************************************************************************)
NoOpenToss(h) ==
    \A e \in Shapes : (e.hand = h /\ e.action = "tossed") => progressAlert[e] # "open"
SpuriousFor(o, h) == {k \in 1..Len(o) : o[k].type = "spurious" /\ o[k].side = h}
ErrorPulsesFor(o, h) ==
    {k \in 1..Len(o) : o[k].type = "pulse" /\ o[k].side = h /\ o[k].ev = NoEvent}
Clean(l) == [level |-> l, errors |-> 0]

(***************************************************************************)
(* C11: in a frame of TossProgress, a button that is down for a hand with  *)
(* no open toss window is an error: one error pulse and one "bad timing"   *)
(* report for that hand, the flag of the hand unchanged; when every button *)
(* that is down is such a false action, ErrorCounter grows by exactly the  *)
(* number of those buttons and the active list and both flags are          *)
(* unchanged.                                                              *)
(***************************************************************************)
C11_FalseActionIsError ==
    [][last'.act = "TossFrame" =>
          LET falseActions == {h \in last'.pressed : NoOpenToss(h)} IN
          /\ \A h \in falseActions :
                /\ Cardinality(SpuriousFor(out', h)) = 1
                /\ Cardinality(ErrorPulsesFor(out', h)) = 1
                /\ IF h = "right" THEN Aclick' = Aclick ELSE Xclick' = Xclick
          /\ falseActions = last'.pressed =>
                /\ errorCount' = errorCount + Cardinality(falseActions)
                /\ tossListenedEvent' = tossListenedEvent
                /\ Aclick' = Aclick
                /\ Xclick' = Xclick]_vars

C11_FalsePressBesideOpenWindow ==
    /\ last.act = "TossFrame"
    /\ last.pressed = {"right"}
    /\ NoOpenToss("right")
    /\ ~NoOpenToss("left")
    /\ tossListenedEvent # <<>>
    /\ Cardinality(SpuriousFor(out, "right")) = 1
    /\ errorCount = 1
    /\ text = BadTiming

(***************************************************************************)
(* C12: when the toss window of TossChecker closes and its event was not   *)
(* matched, ErrorCounter is incremented, a missed-toss message is emitted  *)
(* for the event and the guide of its hand is removed.                     *)
(***************************************************************************)
C12_UnmatchedTossCloseIsMiss ==
    [][(last'.act = "CheckerSup" /\ last'.ev.action = "tossed" /\ last'.ev \notin matched')
          => /\ errorCount' = errorCount + 1
             /\ MissFor(out', last'.ev)
             /\ tossEvent'[last'.ev.hand] # last'.ev]_vars

(***************************************************************************)
(* C13: directly after the frame in which an event is matched, the event   *)
(* is no longer in the active list.                                        *)
(***************************************************************************)
C13_MatchedLeavesList ==
    last.act \in {"CatchFrame", "TossFrame"} =>
        \A k \in 1..Len(out) : out[k].type = "explode" =>
            /\ ~InList(listenedEvent, out[k].ev)
            /\ ~InList(tossListenedEvent, out[k].ev)

(***************************************************************************)
(* C14: after the "sup" handler of a window tracker has returned, the      *)
(* event it was notified for is not in that tracker's active list, matched *)
(* or missed, whichever its hand and action.                               *)
(***************************************************************************)
C14_ClosedIsAbsent ==
    /\ last.act = "CatchSup" => ~InList(listenedEvent, last.ev)
    /\ last.act = "TossSup" => ~InList(tossListenedEvent, last.ev)

C14_MatchedThenClosed ==
    /\ last.act = "TossSup"
    /\ last.ev \in matched
    /\ progressAlert[last.ev] = "closed"
    /\ ~InList(tossListenedEvent, last.ev)
    /\ tossListenedEvent # <<>>

(***************************************************************************)
(* C15: every toss window that is open and not yet matched is still        *)
(* tracked by TossChecker, also when a second window of the same hand has  *)
(* opened for another ball.                                                *)
(***************************************************************************)
C15_OverlappingWindowsKept ==
    \A e \in Shapes :
        (e.action = "tossed" /\ tossAlert[e] = "open" /\ e \notin matched)
            => tossEvent[e.hand] = e

(***************************************************************************)
(* C16: after the notification of a toss event whose flight time           *)
(* unitTime * siteswapHeight is not positive, the guide direction of its   *)
(* hand is the default straight-up unit direction.                         *)
(***************************************************************************)
C16_DefaultDirectionOnBadFlightTime ==
    (/\ last.act \in {"CheckerInf", "CheckerInstant"}
     /\ last.ev.action = "tossed"
     /\ unitTime * siteswapHeight(last.ev) <= 0)
        => velocity[last.ev.hand] = "up"

(***************************************************************************)
(* C17, as claimed: after two consecutive clean repetitions, the first of  *)
(* them at level 1, the practice has advanced once: it is at level 2 with  *)
(* level 2's playback rate.                                                *)
(***************************************************************************)
C17_TwoCleanRepetitionsOneAdvance ==
    (/\ pc = Idle
     /\ Len(repetitions) >= 2
     /\ repetitions[1] = Clean(1)
     /\ repetitions[2].errors = 0
     /\ boundary = repetitions[2])
        => level = 2 /\ playbackRate = levelSpeed(2)

(***************************************************************************)
(* C17, amended: each of two consecutive clean repetitions that start at   *)
(* level 1 advances by one.  After the first the practice is at level 2    *)
(* with level 2's rate, after one countdown.  The second is at level 2 and *)
(* ends at level 3 with level 3's rate after one countdown, or, when the   *)
(* table has two levels, with the practice completed and no countdown.     *)
(***************************************************************************)
C17_CleanRepetitionsAdvanceEach ==
    /\ (/\ pc = Idle
        /\ Len(repetitions) >= 1
        /\ repetitions[1] = Clean(1)
        /\ boundary = repetitions[1])
          => level = 2 /\ playbackRate = levelSpeed(2) /\ countdowns = 1
    /\ (/\ pc = Idle
        /\ Len(repetitions) >= 2
        /\ repetitions[1] = Clean(1)
        /\ repetitions[2].errors = 0
        /\ boundary = repetitions[2])
          => /\ repetitions[2].level = 2
             /\ IF Len(levelsInformations) > 2
                THEN /\ level = 3
                     /\ playbackRate = levelSpeed(3)
                     /\ countdowns = 1
                     /\ outcome = "advanced"
                ELSE /\ level = 2
                     /\ countdowns = 0
                     /\ outcome = "completed"

C17_ThirdLevelAfterTwoClean ==
    /\ pc = Idle
    /\ Len(repetitions) >= 2
    /\ repetitions[1] = Clean(1)
    /\ repetitions[2] = Clean(2)
    /\ boundary = repetitions[2]
    /\ level = 3
    /\ playbackRate = 8
    /\ countdowns = 1
    /\ ~paused

(***************************************************************************)
(* C18: once the practice is completed it stays completed: no later step   *)
(* starts a countdown or a nextLevel call or resumes the clock.            *)
(***************************************************************************)
C18_CompletedIsTerminal ==
    [][outcome = "completed" =>
          /\ outcome' = "completed"
          /\ pc' = Idle
          /\ bpc' = Idle
          /\ paused']_vars

(***************************************************************************)
(* C19: the level stays within the level table, never decreases, and       *)
(* changes only by +1, within a nextLevel call started at a reachedEnd     *)
(* with ErrorCounter = 0.                                                  *)
(***************************************************************************)
C19_LevelOnlyAdvances ==
    [][/\ level \in DOMAIN levelsInformations
       /\ level' \in DOMAIN levelsInformations
       /\ level' # level =>
            /\ level' = level + 1
            /\ pc # Idle
            /\ boundary.errors = 0
            /\ boundary.level = level]_vars

C19_AdvancedAfterCleanRepetition ==
    /\ last.act = "NextLevelStep"
    /\ pc = At("countdown", 1)
    /\ boundary = Clean(2)
    /\ level = 3
    /\ Len(repetitions) >= 2
    /\ repetitions[1].errors > 0

(***************************************************************************)
(* C20: after the practice component is torn down, no step of a pending    *)
(* countdown or congratulation sequence changes the status text, the       *)
(* level, the clock (playback rate, time, paused) or the scene.            *)
(***************************************************************************)
C20_NothingAfterTeardown ==
    [][(~mounted /\ last'.act = "NextLevelStep")
          => /\ text' = text
             /\ level' = level
             /\ playbackRate' = playbackRate
             /\ time' = time
             /\ paused' = paused
             /\ scene' = scene]_vars

(***************************************************************************)
(* More helpers of the properties.                                         *)
(***************************************************************************)
CountdownOrder == <<"Preparez-vous", "3", "2", "1", "Go !">>
ExplodedIn(o) == {o[k].ev : k \in {j \in 1..Len(o) : o[j].type = "explode"}}
CallsOfSide(o, h) == {k \in 1..Len(o) : o[k].side = h}
EventsOf(list, h) == SelectSeq(list, LAMBDA e : e.hand = h)
flagOfCatch(h) == IF h = "right" THEN hasCatchRight ELSE hasCatchLeft

(***************************************************************************)
(* C21: a countdown, of nextLevel or of the B button, shows its messages   *)
(* one after the other in the order get-ready, 3, 2, 1, go; its steps up   *)
(* to the last wait leave the clock unchanged, and the step that shows     *)
(* "Go !" changes the clock only by what the caller does next (the B       *)
(* button: play, with time and playback rate unchanged).                   *)
(***************************************************************************)
C21_CountdownInOrder ==
    [][/\ (last'.act = "NextLevelStep" /\ pc'.at = "countdown") =>
            /\ pc'.i = (IF pc.at = "countdown" THEN pc.i + 1 ELSE 1)
            /\ text' = CountdownOrder[pc'.i]
            /\ UNCHANGED clockVars
       /\ (last'.act = "NextLevelStep" /\ pc.at = "countdown" /\ pc'.at # "countdown") =>
            /\ pc.i = 4
            /\ text' = CountdownOrder[5]
       /\ (last'.act = "BPressed" /\ bpc' # bpc) =>
            /\ bpc' = At("countdown", 1)
            /\ text' = CountdownOrder[1]
            /\ UNCHANGED clockVars
       /\ (last'.act = "BCountdownWaited" /\ bpc'.at = "countdown") =>
            /\ bpc'.i = bpc.i + 1
            /\ text' = CountdownOrder[bpc'.i]
            /\ UNCHANGED clockVars
       /\ (last'.act = "BCountdownWaited" /\ bpc'.at # "countdown") =>
            /\ bpc.i = 4
            /\ text' = CountdownOrder[5]
            /\ UNCHANGED <<playbackRate, time>>]_vars

C21_LastWaitOfAdvance ==
    /\ last.act = "NextLevelStep"
    /\ pc = At("countdown", 4)
    /\ text = "1"
    /\ boundary = Clean(1)
    /\ level = 2
    /\ playbackRate = 3
    /\ paused
    /\ time = "start"

C23_MatchOnlyOwnHandAtBall ==
    [][last'.act = "CatchFrame" =>
          \A e \in ExplodedIn(out') :
              /\ e.action = "caught"
              /\ alert[e] = "open"
              /\ InList(listenedEvent, e)
              /\ e \in last'.near]_vars

C23_OneMatchedOtherHandKept ==
    /\ last.act = "CatchFrame"
    /\ \E e \in ExplodedIn(out) :
          /\ e.hand = "left"
          /\ e \in last.near
          /\ \E f \in Shapes :
                f.hand = "right" /\ f.ball = e.ball /\ InList(listenedEvent, f)

C26_ProximityWithinRadius ==
    last.act = "CatchFrame" => ExplodedIn(out) = last.near

(***************************************************************************)
(* C27: when a nextLevel call resumes the clock, ErrorCounter is 0.        *)
(***************************************************************************)
C27_NoErrorAtResume ==
    [][(last'.act = "NextLevelStep" /\ pc # Idle /\ pc' = Idle /\ ~paused')
          => errorCount' = 0]_vars

(***************************************************************************)
(* C28: at most one countdown / level-transition sequence is in progress.  *)
(***************************************************************************)
C28_OneSequenceAtATime == ~(pc # Idle /\ bpc # Idle)

(***************************************************************************)
(* C29: while a nextLevel call is pending the clock stays paused at the    *)
(* start of the pattern.                                                   *)
(***************************************************************************)
C29_PausedAtStartDuringSequence == pc # Idle => (paused /\ time = "start")

(***************************************************************************)
(* C30: CatchChecker's listeners follow the current makeStop: the          *)
(* notification of a catch event pauses the clock if and only if makeStop  *)
(* is true.                                                                *)
(***************************************************************************)
C30_ListenersFollowMakeStop ==
    (last.act \in {"CatchInf", "CatchInstant"} /\ last.ev.action = "caught")
        => (makeStop <=> out = <<Pause(last.ev)>>)

(***************************************************************************)
(* Helpers of the properties of FollowTrajectory.                          *)
(***************************************************************************)
Occurrences(list, b) == Cardinality({i \in 1..Len(list) : list[i] = b})
FollowList(h) == IF h = "right" THEN ballToFollowRight ELSE ballToFollowLeft
FollowListNext(h) == IF h = "right" THEN ballToFollowRight' ELSE ballToFollowLeft'
OtherHand(h) == IF h = "right" THEN "left" ELSE "right"

(***************************************************************************)
(* C31: at every end of the figure, the first and every later one, both    *)
(* hand lists of FollowTrajectory are emptied.                             *)
(***************************************************************************)
C31_ListsEmptiedAtEveryEnd ==
    [][last'.act \in {"clearList", "handleReachedEnd"} =>
          /\ ballToFollowLeft' = <<>>
          /\ ballToFollowRight' = <<>>]_vars

(***************************************************************************)
(* C32: after the notification of a catch the ball is once in the list of  *)
(* the catching hand and not in the other list; after the notification of  *)
(* a toss it is in neither list; the other balls stay where they were.     *)
(***************************************************************************)
C32_FollowedOnceFromCatchToToss ==
    [][last'.act = "FollowInstant" =>
          LET e == last'.ev
          IN  /\ e.action = "caught" =>
                    /\ Occurrences(FollowListNext(e.hand), e.ball) = 1
                    /\ Occurrences(FollowListNext(OtherHand(e.hand)), e.ball) = 0
              /\ e.action = "tossed" =>
                    \A h \in Hands : Occurrences(FollowListNext(h), e.ball) = 0
              /\ \A b \in Balls \ {e.ball}, h \in Hands :
                    Occurrences(FollowListNext(h), b) = Occurrences(FollowList(h), b)]_vars

(***************************************************************************)
(* C33: an update dispatches a gesture event for a side exactly when the   *)
(* gesture is detected on this update and was not detected on the previous *)
(* update for that side; a held gesture dispatches once, and each side is  *)
(* judged on its own measurements.                                         *)
(***************************************************************************)
C33_EventOnRisingEdge ==
    [][last'.act = "update" =>
          dispatched' = {<<g, h>> \in Gestures \X Hands :
                            detected'[g][h] /\ ~detected[g][h]}]_vars

(***************************************************************************)
(* C34: isCloseHand is true only for a hand that is tracked and measured   *)
(* and whose average palm-to-fingertip distance is at most the threshold;  *)
(* it is false when the hand, the frame, the reference space, a joint or a *)
(* joint pose is missing.                                                  *)
(***************************************************************************)
C34_CloseOnlyWhenMeasured ==
    handCall.called =>
        (handCall.result <=>
            /\ handCall.hand
            /\ handCall.frame = "full"
            /\ handCall.referenceSpace
            /\ handCall.s.track = "ok"
            /\ handCall.s.palm <= openHandThreshold)

(***************************************************************************)
(* C35: after each timeUpdate handled by SimpleSlider the time of the      *)
(* clock lies within the virtual bounds: infTime <= t <= supTime.          *)
(***************************************************************************)
C35_TimeWithinVirtualBounds ==
    [][last'.act = "timeUpdate" =>
          /\ infTime' <= clockTime'
          /\ clockTime' <= supTime']_vars

====
